---- MODULE Spec2Model ----
(***************************************************************************)
(* Task execution and permission coordination of agor.                     *)
(*                                                                         *)
(*   - ClaudeTool.executePromptWithStreaming / chunkTextForStreaming       *)
(*     (packages/core/src/permissions/index.ts)                            *)
(*   - createPreToolUseHook, PermissionService, updateProjectSettings      *)
(*     (the listings of context/explorations/permission-system.md and      *)
(*     context/explorations/git-worktree.md)                               *)
(*   - the daemon's prompt route and permission-decision endpoint          *)
(*     (context/explorations/chunking-responses.md, git-worktree.md)       *)
(***************************************************************************)
EXTENDS Integers, Sequences, FiniteSets, TLC

(***************************************************************************)
(* Bounds of the model.                                                    *)
(***************************************************************************)
\* longest text fed to the chunker, in characters
MaxTextLen == 6
\* request ids generateId() hands out over a run
MaxRequests == 2
\* assistant messages a backend yields in one turn
MaxBlocks == 2
\* longest text fed to the chunker word by word, in words
MaxWords == 13
\* longest text fed to the chunker as words and line breaks, in words
MaxLineWords == 5

(***************************************************************************)
(* The small sets the inputs are drawn from.                               *)
(***************************************************************************)
Tasks == {"t1", "t2"}
Sessions == {"s1", "s2"}
Tools == {"Bash", "Write"}
Users == {"alice"}
\* the session a prompt for each task is posted to: the first task's session
\* is fixed, the second task shares it or runs in the other one
SessionsFor(t) == IF t = "t1" THEN {"s1"} ELSE Sessions

(***************************************************************************)
(* Text: a string is a sequence of one-character strings.                  *)
(***************************************************************************)
Chars == {"a", ".", " ", "\n"}

\* \s of the regular expressions, and what trim()/trimEnd() strip
IsSpace(c) == c \in {" ", "\n"}

\* the character class [.!?\n\n] of hasSentenceBoundary
Terminators == {".", "!", "?", "\n"}

\* the sentence-boundary flush needs this many words; the hard cap
MinSentenceWords == 3
MaxChunkWords == 10

RECURSIVE Concat(_)
Concat(ss) == IF ss = <<>> THEN <<>> ELSE Head(ss) \o Concat(Tail(ss))

\* text.split(/(\s+)/): non-space runs and the captured space runs between
\* them, alternating; a text that starts or ends with spaces yields an empty
\* first or last token.
RECURSIVE SplitFrom(_, _, _, _, _)
SplitFrom(text, i, cur, curIsSpace, acc) ==
  IF i > Len(text)
  THEN IF curIsSpace THEN acc \o <<cur, <<>>>> ELSE Append(acc, cur)
  ELSE IF IsSpace(text[i]) = curIsSpace
       THEN SplitFrom(text, i + 1, Append(cur, text[i]), curIsSpace, acc)
       ELSE SplitFrom(text, i + 1, <<text[i]>>, ~curIsSpace, Append(acc, cur))

SplitKeepWhitespace(text) == SplitFrom(text, 1, <<>>, FALSE, <<>>)

\* buffer.split(/\s+/).filter(w => w.length > 0).length
WordCount(buffer) ==
  Cardinality({i \in 1..Len(buffer) :
                 /\ ~IsSpace(buffer[i])
                 /\ (i = 1 \/ IsSpace(buffer[i - 1]))})

\* buffer.trimEnd()
RECURSIVE TrimEnd(_)
TrimEnd(s) ==
  IF s # <<>> /\ IsSpace(s[Len(s)]) THEN TrimEnd(SubSeq(s, 1, Len(s) - 1)) ELSE s

\* /[.!?\n\n]\s*$/.test(buffer.trimEnd())
HasSentenceBoundary(buffer) ==
  LET s == TrimEnd(buffer)
  IN  \E i \in 1..Len(s) :
        /\ s[i] \in Terminators
        /\ \A j \in (i + 1)..Len(s) : IsSpace(s[j])

\* ShouldFlush with a sentence-boundary flush from two words on
ShouldFlushFromTwoWords(buffer) ==
  \/ HasSentenceBoundary(buffer) /\ WordCount(buffer) >= 2
  \/ WordCount(buffer) >= MaxChunkWords

\* ShouldFlush with a word cap that flushes past MaxChunkWords words
ShouldFlushPastCap(buffer) ==
  \/ HasSentenceBoundary(buffer) /\ WordCount(buffer) >= MinSentenceWords
  \/ WordCount(buffer) > MaxChunkWords

\* the flush condition of the loop
ShouldFlush(buffer) ==
  \/ HasSentenceBoundary(buffer) /\ WordCount(buffer) >= MinSentenceWords
  \/ WordCount(buffer) >= MaxChunkWords

\* buffer.trim() is non-empty
HasNonSpace(buffer) == \E i \in 1..Len(buffer) : ~IsSpace(buffer[i])

\* the final flush: if (buffer.trim()) chunks.push(buffer)
FlushRemaining(chunks, buffer) ==
  IF HasNonSpace(buffer) THEN Append(chunks, buffer) ELSE chunks

RECURSIVE ChunkLoop(_, _, _, _)
ChunkLoop(words, i, buffer, chunks) ==
  IF i > Len(words)
  THEN FlushRemaining(chunks, buffer)
  ELSE LET b == buffer \o words[i]
       IN  IF ShouldFlush(b)
           THEN ChunkLoop(words, i + 1, <<>>, Append(chunks, b))
           ELSE ChunkLoop(words, i + 1, b, chunks)

chunkTextForStreaming(text) == ChunkLoop(SplitKeepWhitespace(text), 1, <<>>, <<>>)

(***************************************************************************)
(* State.                                                                  *)
(***************************************************************************)
VARIABLES
  fedText,          \* chunker: the text handed to chunkTextForStreaming
  emitted,          \* chunker: the chunks it returned
  chunked,          \* chunker: whether it has run on fedText
  tasks,            \* the task records (tasksService / tasksRepo)
  sessionAllowed,   \* session.data.permission_config.allowedTools, per session
  projectAllowed,   \* {cwd}/.claude/settings.json: whether the file exists, and
                    \* its permissions.allow.tools
  pendingRequests,  \* PermissionService.pendingRequests: the keys of the map
  timers,           \* request ids whose 60 s setTimeout is armed
  listeners,        \* request ids whose abort listener can still fire
  resolution,       \* what each waitForDecision promise was resolved with
  aborted,          \* the abort signal of each turn
  nextRequestId,    \* generateId() for request ids
  notifs,           \* the permission:request events emitted
  hook,             \* each turn's PreToolUse hook invocation
  returned,         \* what each turn's hook returned last
  inflight,         \* the endpoint call between its patch and resolvePermission
  exec,             \* each turn's executePrompt call (the prompt route)
  remembered,       \* history: tools a session-scope remember was stored for
  messages,         \* the rows messagesService.create has written, in order
  events,           \* the streaming callbacks called, in order
  nextMsgId,        \* generateId() for message ids
  produced,         \* history: the contents each turn's backend has yielded
  agentSessionId,   \* session.agent_session_id, per session
  lastError         \* message of the last Error the decision endpoint threw

chunkVars == <<fedText, emitted, chunked>>
permVars == <<tasks, sessionAllowed, projectAllowed, pendingRequests, timers,
              listeners, resolution, aborted, nextRequestId, notifs, hook,
              returned, inflight, remembered>>
\* permVars without the task records
serviceVars == <<sessionAllowed, projectAllowed, pendingRequests, timers,
                 listeners, resolution, aborted, nextRequestId, notifs, hook,
                 returned, inflight, remembered>>
msgVars == <<messages, events, nextMsgId, produced, agentSessionId>>
execVars == <<exec, msgVars>>

vars == <<fedText, emitted, chunked, tasks, sessionAllowed, projectAllowed,
          pendingRequests, timers, listeners, resolution, aborted,
          nextRequestId, notifs, hook, returned, inflight, exec, remembered,
          messages, events, nextMsgId, produced, agentSessionId, lastError>>

RequestIds == 1..MaxRequests
\* a request id no generateId() call ever returned
UnknownRequestId == 0

TaskStatus == {"created", "running", "awaiting_permission", "completed", "failed"}

\* task.permission_request: absent, or the sub-record of the Task type
NoPermissionRequest ==
  [present |-> FALSE, request_id |-> 0, tool_name |-> "none",
   approved_by |-> "none", approved_at |-> FALSE]

\* a task id the prompt route has not created a record for yet
NoTask == [status |-> "none", session_id |-> "none",
           permission_request |-> NoPermissionRequest]

Scopes == {"once", "session", "project"}

\* an unresolved waitForDecision promise
NoDecision ==
  [requestId |-> 0, taskId |-> "none", allow |-> FALSE, reason |-> "none",
   remember |-> FALSE, scope |-> "once", decidedBy |-> "none"]

\* the payloads the permission-decision endpoint accepts
\* ("Allow once" / "Deny", "Allow for Session", "Allow for Project")
Choices == {<<FALSE, "once">>, <<TRUE, "session">>, <<TRUE, "project">>}

Decisions ==
  {[requestId |-> r, taskId |-> t, allow |-> a, reason |-> "user",
    remember |-> c[1], scope |-> c[2], decidedBy |-> u] :
     r \in {UnknownRequestId} \cup RequestIds, t \in Tasks, a \in BOOLEAN,
     c \in Choices, u \in Users}

\* a promise whose value has been delivered to the awaiting hook: later
\* resolve() calls still do nothing
SettledPromise == [NoDecision EXCEPT !.reason = "settled"]

\* the abort listener's resolve({... reason: 'Cancelled' ...})
CancelledDecision(r) ==
  [requestId |-> r, taskId |-> "none", allow |-> FALSE, reason |-> "Cancelled",
   remember |-> FALSE, scope |-> "once", decidedBy |-> "none"]

\* TimeoutDecision remembered for the session
TimeoutDecisionRemembered(r) ==
  [requestId |-> r, taskId |-> "none", allow |-> FALSE, reason |-> "Timeout",
   remember |-> TRUE, scope |-> "session", decidedBy |-> "none"]

\* the timer's resolve({... reason: 'Timeout' ...})
TimeoutDecision(r) ==
  [requestId |-> r, taskId |-> "none", allow |-> FALSE, reason |-> "Timeout",
   remember |-> FALSE, scope |-> "once", decidedBy |-> "none"]

\* a project directory without .claude/settings.json, and one whose file
\* allows no tool yet
NoSettingsFile == [exists |-> FALSE, tools |-> {}]
EmptySettings == [exists |-> TRUE, tools |-> {}]

IdleHook ==
  [pc |-> "idle", tool |-> "none", snapshot |-> <<>>, requestId |-> 0,
   projSnapshot |-> {}]

NothingReturned ==
  [immediate |-> FALSE, permissionDecision |-> "none", reason |-> "none"]

\* the locals of one executePromptWithStreaming call
\* (streaming: the call is executePromptWithStreaming, not executePrompt)
IdleExec ==
  [pc |-> "idle", callbacks |-> FALSE, nextIndex |-> 0, captured |-> "none",
   msgId |-> 0, content |-> <<>>, sent |-> 0, streaming |-> TRUE]

Range(s) == {s[i] : i \in 1..Len(s)}

ChunkInit ==
  /\ fedText = <<>>
  /\ emitted = <<>>
  /\ chunked = FALSE

PermInit ==
  /\ tasks = [t \in Tasks |-> NoTask]
  /\ sessionAllowed = [s \in Sessions |-> <<>>]
  /\ projectAllowed \in {NoSettingsFile, EmptySettings}
  /\ pendingRequests = {}
  /\ timers = {}
  /\ listeners = {}
  /\ resolution = [r \in RequestIds |-> NoDecision]
  /\ aborted = [t \in Tasks |-> FALSE]
  /\ nextRequestId = 1
  /\ notifs = {}
  /\ hook = [t \in Tasks |-> IdleHook]
  /\ returned = [t \in Tasks |-> NothingReturned]
  /\ inflight = NoDecision
  /\ remembered = [s \in Sessions |-> {}]

ExecInit ==
  /\ exec = [t \in Tasks |-> IdleExec]
  /\ messages = <<>>
  /\ events = <<>>
  /\ nextMsgId = 1
  /\ produced = [t \in Tasks |-> <<>>]
  /\ agentSessionId = [s \in Sessions |-> "none"]

Init == ChunkInit /\ PermInit /\ ExecInit /\ lastError = "none"

\* Init in a project that has a settings file: for the specifications in
\* which no decision is remembered for the project
InitSettings == Init /\ projectAllowed = EmptySettings

(***************************************************************************)
(* The chunker on every text of at most MaxTextLen characters.             *)
(***************************************************************************)
FeedChar(c) ==
  /\ ~chunked
  /\ Len(fedText) < MaxTextLen
  /\ fedText' = Append(fedText, c)
  /\ UNCHANGED <<emitted, chunked>>
  /\ UNCHANGED <<permVars, execVars, lastError>>

RunChunker ==
  /\ ~chunked
  /\ emitted' = chunkTextForStreaming(fedText)
  /\ chunked' = TRUE
  /\ UNCHANGED fedText
  /\ UNCHANGED <<permVars, execVars, lastError>>

NextChunk ==
  \/ \E c \in Chars : FeedChar(c)
  \/ RunChunker

SpecChunk == Init /\ [][NextChunk]_vars

(***************************************************************************)
(* C4: chunker round trip: the chunks, concatenated in emission order, are *)
(* the fed text, whitespace included.                                      *)
(***************************************************************************)
C4_RoundTrip == chunked => Concat(emitted) = fedText

(***************************************************************************)
(* The chunker on texts of up to MaxWords words, each "a" or "a." and      *)
(* followed by one space: long enough for the 10-word cap.                 *)
(***************************************************************************)
Words == {<<"a">>, <<"a", ".">>}

FeedWord(w) ==
  /\ ~chunked
  /\ WordCount(fedText) < MaxWords
  /\ fedText' = fedText \o w \o <<" ">>
  /\ UNCHANGED <<emitted, chunked>>
  /\ UNCHANGED <<permVars, execVars, lastError>>

NextWords ==
  \/ \E w \in Words : FeedWord(w)
  \/ RunChunker

SpecWords == Init /\ [][NextWords]_vars

(***************************************************************************)
(* C20: every emitted chunk other than the final flush either ends at a    *)
(* sentence terminator and holds at least 3 words, or holds exactly 10     *)
(* words.  The final flush, if there is one, is the last chunk, and the    *)
(* flush condition of the loop does not hold for it.                       *)
(***************************************************************************)
EndsAtTerminator(c) ==
  /\ c # <<>>
  /\ \/ c[Len(c)] \in {".", "!", "?"}
     \/ Len(c) >= 2 /\ c[Len(c)] = "\n" /\ c[Len(c) - 1] = "\n"

BoundaryChunk(c) ==
  \/ EndsAtTerminator(c) /\ WordCount(c) >= 3
  \/ WordCount(c) = 10

C36_ChunkWordCap ==
  chunked => \A i \in 1..Len(emitted) : WordCount(emitted[i]) <= MaxChunkWords

\* a text of more than 10 words chunked into a full chunk of 10 words and
\* chunks after it, the last one a final flush
C36_Witness ==
  /\ chunked
  /\ WordCount(fedText) > MaxChunkWords
  /\ Len(emitted) >= 2
  /\ WordCount(emitted[1]) = MaxChunkWords
  /\ ~ShouldFlush(emitted[Len(emitted)])
  /\ WordCount(emitted[Len(emitted)]) >= 1

(***************************************************************************)
(* The chunker on texts of up to MaxLineWords words, each "a" or "a." and  *)
(* followed by a space or by a blank line.                                 *)
(***************************************************************************)
Separators == {<<" ">>, <<"\n", "\n">>}

FeedLine(w, sep) ==
  /\ ~chunked
  /\ WordCount(fedText) < MaxLineWords
  /\ fedText' = fedText \o w \o sep
  /\ UNCHANGED <<emitted, chunked>>
  /\ UNCHANGED <<permVars, execVars, lastError>>

NextLines ==
  \/ \E w \in Words, sep \in Separators : FeedLine(w, sep)
  \/ RunChunker

SpecLines == Init /\ [][NextLines]_vars

(***************************************************************************)
(* C28: the chunker flushes at the earliest point where the buffer ends    *)
(* with a sentence terminator (".", "!", "?" or a blank line) and holds at *)
(* least 3 words, or holds at least 10 words: no emitted chunk goes on     *)
(* past such a point.                                                      *)
(***************************************************************************)
\* the places of chunk c where the loop has looked at its buffer: the ends
\* of the runs of split(/(\s+)/), the end of c excepted
EarlierBuffers(c) ==
  {SubSeq(c, 1, k) : k \in {j \in 1..(Len(c) - 1) : IsSpace(c[j]) # IsSpace(c[j + 1])}}

FlushPoint(buffer) ==
  \/ EndsAtTerminator(buffer) /\ WordCount(buffer) >= 3
  \/ WordCount(buffer) >= 10

C28_FlushAtEarliestPoint ==
  chunked =>
    \A i \in 1..Len(emitted) :
       \A b \in EarlierBuffers(emitted[i]) : ~FlushPoint(b)

(***************************************************************************)
(* The prompt route of the daemon and the turn it starts.  The message     *)
(* loop of executePromptWithStreaming is in the executor section; here the *)
(* turn is in the backend (inside promptSessionStreaming) until the        *)
(* iteration ends or throws.  The backend waits for a PreToolUse hook it   *)
(* has called: it neither yields, ends nor throws while the hook runs.     *)
(***************************************************************************)
SessionOf(t) == tasks[t].session_id

TurnActive(t) == exec[t].pc \notin {"idle", "finished"}

\* tasksService.create({ status: 'running', ... }), then the executor is
\* started with setImmediate
CreatedTask(s) ==
  [status |-> "running", session_id |-> s,
   permission_request |-> NoPermissionRequest]

PromptRoute(t, s) ==
  /\ tasks[t].status = "none"
  /\ tasks' = [tasks EXCEPT ![t] = CreatedTask(s)]
  /\ exec' = [exec EXCEPT ![t].pc = "backend"]
  /\ UNCHANGED <<sessionAllowed, projectAllowed, pendingRequests, timers,
                 listeners, resolution, aborted, nextRequestId, notifs, hook,
                 returned, inflight, remembered, chunkVars, lastError, msgVars>>

\* the for-await loop ends and executePrompt resolves:
\* .then(() => tasksService.patch(task.task_id, { status: 'completed' }))
RouteCompleted(t) ==
  /\ exec[t].pc = "backend"
  /\ hook[t].pc = "idle"
  /\ tasks' = [tasks EXCEPT ![t].status = "completed"]
  /\ exec' = [exec EXCEPT ![t].pc = "finished"]
  /\ UNCHANGED <<sessionAllowed, projectAllowed, pendingRequests, timers,
                 listeners, resolution, aborted, nextRequestId, notifs, hook,
                 returned, inflight, remembered, chunkVars, lastError, msgVars>>

\* the backend throws, executePrompt rejects:
\* .catch(() => tasksService.patch(task.task_id, { status: 'failed' }))
RouteFailed(t) ==
  /\ exec[t].pc = "backend"
  /\ hook[t].pc = "idle"
  /\ tasks' = [tasks EXCEPT ![t].status = "failed"]
  /\ exec' = [exec EXCEPT ![t].pc = "finished"]
  /\ UNCHANGED <<sessionAllowed, projectAllowed, pendingRequests, timers,
                 listeners, resolution, aborted, nextRequestId, notifs, hook,
                 returned, inflight, remembered, chunkVars, lastError, msgVars>>

(***************************************************************************)
(* createPreToolUseHook(sessionId, taskId): one action per await.          *)
(***************************************************************************)
\* session.data?.permission_config?.allowedTools?.includes(input.tool_name)
SessionAllows(allowedTools, tool) == tool \in Range(allowedTools)

\* the hook's return value
HookOutput(r, allow, reason) ==
  [immediate |-> r = 0,
   permissionDecision |-> IF allow THEN "allow" ELSE "deny",
   reason |-> reason]

\* HookFindSession that looks the tool up in the lists of all sessions
HookFindSessionAnySession(t, tool) ==
  /\ exec[t].pc = "backend"
  /\ hook[t].pc = "idle"
  /\ ~aborted[t]
  /\ LET allowedTools == sessionAllowed[SessionOf(t)]
     IN  IF \E s \in Sessions : SessionAllows(sessionAllowed[s], tool)
         THEN /\ returned' = [returned EXCEPT ![t] =
                                HookOutput(0, TRUE, "Allowed by session config")]
              /\ UNCHANGED <<hook, nextRequestId>>
         ELSE /\ nextRequestId <= MaxRequests
              /\ hook' = [hook EXCEPT ![t] =
                            [pc |-> "updateTask", tool |-> tool,
                             snapshot |-> allowedTools,
                             requestId |-> nextRequestId,
                             projSnapshot |-> {}]]
              /\ nextRequestId' = nextRequestId + 1
              /\ UNCHANGED returned
  /\ UNCHANGED <<tasks, sessionAllowed, projectAllowed, pendingRequests, timers,
                 listeners, resolution, aborted, notifs, inflight, remembered,
                 exec, chunkVars, lastError, msgVars>>

\* HookFindSession that announces the tool call to the UI before it looks
\* at the session's list
HookFindSessionNotifying(t, tool) ==
  /\ exec[t].pc = "backend"
  /\ hook[t].pc = "idle"
  /\ ~aborted[t]
  /\ notifs' = notifs \cup {[requestId |-> nextRequestId, taskId |-> t,
                              sessionId |-> SessionOf(t), toolName |-> tool]}
  /\ LET allowedTools == sessionAllowed[SessionOf(t)]
     IN  IF SessionAllows(allowedTools, tool)
         THEN /\ returned' = [returned EXCEPT ![t] =
                                HookOutput(0, TRUE, "Allowed by session config")]
              /\ UNCHANGED <<hook, nextRequestId>>
         ELSE /\ nextRequestId <= MaxRequests
              /\ hook' = [hook EXCEPT ![t] =
                            [pc |-> "updateTask", tool |-> tool,
                             snapshot |-> allowedTools,
                             requestId |-> nextRequestId,
                             projSnapshot |-> {}]]
              /\ nextRequestId' = nextRequestId + 1
              /\ UNCHANGED returned
  /\ UNCHANGED <<tasks, sessionAllowed, projectAllowed, pendingRequests, timers,
                 listeners, resolution, aborted, inflight, remembered,
                 exec, chunkVars, lastError, msgVars>>

\* The backend calls the hook for a tool invocation; the hook reads the
\* session and returns 'allow' at once when the session's list holds the
\* tool, and otherwise draws a request id and goes on to update the task.
HookFindSession(t, tool) ==
  /\ exec[t].pc = "backend"
  /\ hook[t].pc = "idle"
  /\ ~aborted[t]
  /\ LET allowedTools == sessionAllowed[SessionOf(t)]
     IN  IF SessionAllows(allowedTools, tool)
         THEN /\ returned' = [returned EXCEPT ![t] =
                                HookOutput(0, TRUE, "Allowed by session config")]
              /\ UNCHANGED <<hook, nextRequestId>>
         ELSE /\ nextRequestId <= MaxRequests
              /\ hook' = [hook EXCEPT ![t] =
                            [pc |-> "updateTask", tool |-> tool,
                             snapshot |-> allowedTools,
                             requestId |-> nextRequestId,
                             projSnapshot |-> {}]]
              /\ nextRequestId' = nextRequestId + 1
              /\ UNCHANGED returned
  /\ UNCHANGED <<tasks, sessionAllowed, projectAllowed, pendingRequests, timers,
                 listeners, resolution, aborted, notifs, inflight, remembered,
                 exec, chunkVars, lastError, msgVars>>

\* AwaitingTask without the permission_request of the update
AwaitingTaskStatusOnly(task, r, tool) ==
  [task EXCEPT !.status = "awaiting_permission"]

\* the task record the hook writes before it emits the request
AwaitingTask(task, r, tool) ==
  [task EXCEPT !.status = "awaiting_permission",
               !.permission_request =
                  [present |-> TRUE, request_id |-> r, tool_name |-> tool,
                   approved_by |-> "none", approved_at |-> FALSE]]

\* await this.tasksRepo.update(taskId, { status: 'awaiting_permission',
\*                                       permission_request: {...} })
HookUpdateAwaiting(t) ==
  /\ hook[t].pc = "updateTask"
  /\ tasks' = [tasks EXCEPT ![t] =
                 AwaitingTask(tasks[t], hook[t].requestId, hook[t].tool)]
  /\ hook' = [hook EXCEPT ![t].pc = "emitWait"]
  /\ UNCHANGED <<sessionAllowed, projectAllowed, pendingRequests, timers,
                 listeners, resolution, aborted, nextRequestId, notifs,
                 returned, inflight, remembered, exec, chunkVars, lastError, msgVars>>

\* signal.addEventListener('abort', ...): the listener of a signal that has
\* already fired is never called
ListenersAfterRegister(t, r) ==
  IF aborted[t] THEN listeners ELSE listeners \cup {r}

\* permissionService.emitRequest(...) and the synchronous part of
\* permissionService.waitForDecision(requestId, options.signal)
HookEmitAndWait(t) ==
  /\ hook[t].pc = "emitWait"
  /\ LET r == hook[t].requestId
     IN  /\ notifs' = notifs \cup
                        {[requestId |-> r, taskId |-> t,
                          sessionId |-> SessionOf(t), toolName |-> hook[t].tool]}
         /\ listeners' = ListenersAfterRegister(t, r)
         /\ timers' = timers \cup {r}
         /\ pendingRequests' = pendingRequests \cup {r}
  /\ hook' = [hook EXCEPT ![t].pc = "waiting"]
  /\ UNCHANGED <<tasks, sessionAllowed, projectAllowed, resolution, aborted,
                 nextRequestId, returned, inflight, remembered, exec, chunkVars, lastError, msgVars>>

\* { status: decision.allow ? 'running' : 'failed',
\*   'permission_request.approved_by': decision.decidedBy,
\*   'permission_request.approved_at': new Date().toISOString() }
\* (the same patch in the hook and in the endpoint)
ResolvedTask(task, decision) ==
  [task EXCEPT !.status = IF decision.allow THEN "running" ELSE "failed",
               !.permission_request.present = TRUE,
               !.permission_request.approved_by = decision.decidedBy,
               !.permission_request.approved_at = TRUE]

\* where the hook goes after the task update
AfterResolved(decision) ==
  IF decision.remember /\ decision.scope = "session" THEN "persistSession"
  ELSE IF decision.remember /\ decision.scope = "project" THEN "projectRead"
  ELSE "return"

\* the hook returns: permissionDecision and permissionDecisionReason
HookReturns(t, decision) ==
  /\ returned' = [returned EXCEPT ![t] =
                    HookOutput(hook[t].requestId, decision.allow, decision.reason)]
  /\ hook' = [hook EXCEPT ![t] = IdleHook]
  /\ resolution' = [resolution EXCEPT ![hook[t].requestId] = SettledPromise]

\* the promise of waitForDecision is resolved: the hook resumes and updates
\* the task with the approval
HookResume(t) ==
  /\ hook[t].pc = "waiting"
  /\ resolution[hook[t].requestId] # NoDecision
  /\ LET decision == resolution[hook[t].requestId]
     IN  /\ tasks' = [tasks EXCEPT ![t] = ResolvedTask(tasks[t], decision)]
         /\ IF AfterResolved(decision) = "return"
            THEN HookReturns(t, decision)
            ELSE /\ hook' = [hook EXCEPT ![t].pc = AfterResolved(decision)]
                 /\ UNCHANGED <<returned, resolution>>
  /\ UNCHANGED <<sessionAllowed, projectAllowed, pendingRequests, timers,
                 listeners, aborted, nextRequestId, notifs,
                 inflight, remembered, exec, chunkVars, lastError, msgVars>>

\* [...(session.data?.permission_config?.allowedTools || []), input.tool_name]
\* with the session read at the start of the hook
MergedSessionList(snapshot, tool) == Append(snapshot, tool)

\* await this.sessionsRepo.update(sessionId, { allowedTools: [...] })
HookPersistSession(t) ==
  /\ hook[t].pc = "persistSession"
  /\ sessionAllowed' = [sessionAllowed EXCEPT ![SessionOf(t)] =
                          MergedSessionList(hook[t].snapshot, hook[t].tool)]
  /\ remembered' = [remembered EXCEPT ![SessionOf(t)] = @ \cup {hook[t].tool}]
  /\ HookReturns(t, resolution[hook[t].requestId])
  /\ UNCHANGED <<tasks, projectAllowed, pendingRequests, timers, listeners,
                 aborted, nextRequestId, notifs, inflight, exec, chunkVars, lastError, msgVars>>

\* what the SDK gets from a hook call whose promise rejects
HookThrew(reason) ==
  [immediate |-> FALSE, permissionDecision |-> "threw", reason |-> reason]

\* updateProjectSettings: JSON.parse(await fs.readFile(settingsPath)); the
\* read rejects when the file does not exist, and nothing between there and
\* the SDK catches it
HookProjectRead(t) ==
  /\ hook[t].pc = "projectRead"
  /\ IF projectAllowed.exists
     THEN /\ hook' = [hook EXCEPT ![t].pc = "projectWrite",
                                  ![t].projSnapshot = projectAllowed.tools]
          /\ UNCHANGED <<returned, resolution>>
     ELSE /\ returned' = [returned EXCEPT ![t] = HookThrew("ENOENT")]
          /\ hook' = [hook EXCEPT ![t] = IdleHook]
          /\ resolution' = [resolution EXCEPT ![hook[t].requestId] = SettledPromise]
  /\ UNCHANGED <<tasks, sessionAllowed, projectAllowed, pendingRequests, timers,
                 listeners, aborted, nextRequestId, notifs,
                 inflight, remembered, exec, chunkVars, lastError, msgVars>>

\* [...new Set([...settings.permissions.allow.tools, ...changes.allowTools])]
MergedProjectList(snapshot, tool) == snapshot \cup {tool}

\* updateProjectSettings: await fs.writeFile(settingsPath, ...)
HookProjectWrite(t) ==
  /\ hook[t].pc = "projectWrite"
  /\ projectAllowed' =
       [exists |-> TRUE,
        tools |-> MergedProjectList(hook[t].projSnapshot, hook[t].tool)]
  /\ HookReturns(t, resolution[hook[t].requestId])
  /\ UNCHANGED <<tasks, sessionAllowed, pendingRequests, timers, listeners,
                 aborted, nextRequestId, notifs, inflight, remembered, exec,
                 chunkVars, lastError, msgVars>>

(***************************************************************************)
(* PermissionService: the timer and the abort listener of waitForDecision, *)
(* and resolvePermission.                                                  *)
(***************************************************************************)
\* Settle with a promise that takes the value of every resolve() call
SettleAgain(res, r, decision) == [res EXCEPT ![r] = decision]

\* resolve(decision) of a promise: only the first call settles it
Settle(res, r, decision) ==
  IF res[r] = NoDecision THEN [res EXCEPT ![r] = decision] ELSE res

\* the task whose hook emitted request r
RequestTask(r) == (CHOOSE n \in notifs : n.requestId = r).taskId

\* the requests the timer callback of request r removes from the map
TimerRemoves(r) == {r}

\* setTimeout(() => { this.pendingRequests.delete(requestId); resolve({...}) }, 60000)
TimerFire(r) ==
  /\ r \in timers
  /\ timers' = timers \ {r}
  /\ pendingRequests' = pendingRequests \ TimerRemoves(r)
  /\ resolution' = Settle(resolution, r, TimeoutDecision(r))
  /\ UNCHANGED <<tasks, sessionAllowed, projectAllowed, listeners, aborted,
                 nextRequestId, notifs, hook, returned, inflight, remembered,
                 exec, chunkVars, lastError, msgVars>>

\* ListenersOf with the listeners of every signal
ListenersOfAnySignal(t) == listeners

\* the abort listeners that run when the signal of turn t fires
ListenersOf(t) == {r \in listeners : RequestTask(r) = t}

RECURSIVE SettleAll(_, _, _)
SettleAll(res, rs, t) ==
  IF rs = {} THEN res
  ELSE LET r == CHOOSE x \in rs : TRUE
       IN  SettleAll(Settle(res, r, CancelledDecision(r)), rs \ {r}, t)

\* The caller aborts turn t: every abort listener registered on its signal
\* runs: this.pendingRequests.delete(requestId); resolve({... 'Cancelled' ...})
Abort(t) ==
  /\ TurnActive(t)
  /\ ~aborted[t]
  /\ aborted' = [aborted EXCEPT ![t] = TRUE]
  /\ pendingRequests' = pendingRequests \ ListenersOf(t)
  /\ resolution' = SettleAll(resolution, ListenersOf(t), t)
  /\ listeners' = listeners \ ListenersOf(t)
  /\ UNCHANGED <<tasks, sessionAllowed, projectAllowed, timers, nextRequestId,
                 notifs, hook, returned, inflight, remembered, exec, chunkVars, lastError, msgVars>>

(***************************************************************************)
(* The permission-decision endpoint of the daemon.                         *)
(***************************************************************************)
\* request ids a client can name: one a permission:request event carried,
\* or one that never existed
Published == {n.requestId : n \in notifs}

KnownToClients(r) == r = UnknownRequestId \/ r \in Published

\* the payloads the UI builds from a permission:request event it received
\* (requestId and taskId of the event, the user's choice)
PromptDecisions ==
  {[requestId |-> n.requestId, taskId |-> n.taskId, allow |-> a,
    reason |-> "user", remember |-> c[1], scope |-> c[2],
    decidedBy |-> "alice"] : n \in notifs, a \in BOOLEAN, c \in Choices}

\* the same without "Allow for Project"
SessionPromptDecisions == {d \in PromptDecisions : d.scope # "project"}

\* "Allow once" and "Deny"
OncePromptDecisions == {d \in PromptDecisions : d.scope = "once"}

\* a payload without field f
Without(d, f) == [k \in DOMAIN d \ {f} |-> d[k]]

\* the fields the endpoint requires
RequiredFields == {"requestId", "taskId", "decidedBy", "allow"}

\* payloads built from a permission:request event with a required field
\* left out, or with an empty decidedBy
MalformedPayloads ==
  {Without(d, f) : d \in OncePromptDecisions, f \in RequiredFields}
    \cup {[d EXCEPT !.decidedBy = ""] : d \in OncePromptDecisions}

\* ValidationError that only looks whether the fields are there
ValidationErrorPresenceOnly(data) ==
  IF "requestId" \notin DOMAIN data THEN "requestId required"
  ELSE IF "taskId" \notin DOMAIN data THEN "taskId required"
  ELSE IF "decidedBy" \notin DOMAIN data THEN "decidedBy required"
  ELSE IF "allow" \notin DOMAIN data THEN "allow field required"
  ELSE "none"

\* if (!data.requestId) throw ...; if (!data.taskId) throw ...;
\* if (!data.decidedBy) throw ...; if (typeof data.allow !== 'boolean') throw ...
\* (request ids stand for non-empty strings; the only values of allow are
\* booleans, so a payload fails the last test when it has no allow)
ValidationError(data) ==
  IF "requestId" \notin DOMAIN data THEN "requestId required"
  ELSE IF "taskId" \notin DOMAIN data \/ data.taskId = ""
       THEN "taskId required"
  ELSE IF "decidedBy" \notin DOMAIN data \/ data.decidedBy = ""
       THEN "decidedBy required"
  ELSE IF "allow" \notin DOMAIN data THEN "allow field required"
  ELSE "none"

WellFormed(data) == ValidationError(data) = "none"

\* the endpoint throws on a payload that fails the validation, before it
\* touches the task or the service
EndpointReject(d) ==
  /\ ~WellFormed(d)
  /\ lastError' = ValidationError(d)
  /\ UNCHANGED <<permVars, exec, chunkVars, msgVars>>

\* await tasksService.patch(data.taskId, {...}): runs for every well-formed
\* payload, before resolvePermission
EndpointPatch(d) ==
  /\ WellFormed(d)
  /\ KnownToClients(d.requestId)
  /\ tasks[d.taskId].status # "none"
  /\ inflight = NoDecision
  /\ tasks' = [tasks EXCEPT ![d.taskId] = ResolvedTask(tasks[d.taskId], d)]
  /\ inflight' = d
  /\ UNCHANGED <<sessionAllowed, projectAllowed, pendingRequests, timers,
                 listeners, resolution, aborted, nextRequestId, notifs, hook,
                 returned, remembered, exec, chunkVars, lastError, msgVars>>

\* resolvePermission(decision): a request id that is not in the map is
\* ignored
ResolvePermission(d) ==
  IF d.requestId \in pendingRequests
  THEN /\ timers' = timers \ {d.requestId}
       /\ resolution' = Settle(resolution, d.requestId, d)
       /\ pendingRequests' = pendingRequests \ {d.requestId}
  ELSE UNCHANGED <<timers, resolution, pendingRequests>>

\* permissionService.resolvePermission(data), after the patch
EndpointResolve ==
  /\ inflight # NoDecision
  /\ inflight' = NoDecision
  /\ ResolvePermission(inflight)
  /\ UNCHANGED <<tasks, sessionAllowed, projectAllowed, listeners, aborted,
                 nextRequestId, notifs, hook, returned, remembered, exec,
                 chunkVars, lastError, msgVars>>

\* the endpoint with nothing scheduled between its patch and its
\* resolvePermission call
EndpointCreate(d) ==
  /\ WellFormed(d)
  /\ KnownToClients(d.requestId)
  /\ tasks[d.taskId].status # "none"
  /\ inflight = NoDecision
  /\ tasks' = [tasks EXCEPT ![d.taskId] = ResolvedTask(tasks[d.taskId], d)]
  /\ ResolvePermission(d)
  /\ UNCHANGED <<sessionAllowed, projectAllowed, listeners, aborted,
                 nextRequestId, notifs, hook, returned, inflight, remembered,
                 exec, chunkVars, lastError, msgVars>>

(***************************************************************************)
(* executePromptWithStreaming: one action per await.  The backend is       *)
(* promptSessionStreaming: it yields complete assistant messages, and      *)
(* calls the PreToolUse hook between two of them.                          *)
(***************************************************************************)
\* the text of the assistant messages a backend yields: none (a message of
\* tool_use blocks only), one chunk, two chunks, a sentence and a space
Texts == {<<>>, <<"a">>, <<"a", " ", "a", " ", "a", ".", " ", "a">>,
          <<"a", " ", "a", " ", "a", ".", " ">>}

\* the prompt of a turn
PromptText == <<"a">>

\* existingMessages.length
MessageCount(s) ==
  Cardinality({i \in DOMAIN messages : messages[i].session_id = s})

\* The prompt route creates the task and starts the executor, which runs
\* to its first await: messagesRepo.findBySessionId(sessionId)
ExecutePrompt(t, s, callbacks) ==
  /\ tasks[t].status = "none"
  /\ tasks' = [tasks EXCEPT ![t] = CreatedTask(s)]
  /\ exec' = [exec EXCEPT ![t] = [IdleExec EXCEPT !.pc = "findMessages",
                                                  !.callbacks = callbacks]]
  /\ UNCHANGED <<serviceVars, chunkVars, lastError, msgVars>>

\* let nextIndex = existingMessages.length; the user message is built with
\* message_id: generateId()
ExecFindMessages(t) ==
  /\ exec[t].pc = "findMessages"
  /\ exec' = [exec EXCEPT ![t].pc = "createUser",
                          ![t].nextIndex = MessageCount(SessionOf(t)),
                          ![t].msgId = nextMsgId]
  /\ nextMsgId' = nextMsgId + 1
  /\ UNCHANGED <<permVars, chunkVars, lastError, messages, events, produced,
                 agentSessionId>>

UserMessage(t) ==
  [message_id |-> exec[t].msgId, session_id |-> SessionOf(t), role |-> "user",
   index |-> exec[t].nextIndex, content |-> PromptText, task_id |-> t]

\* ExecCreateUser that keeps the user message back
ExecCreateUserBuffered(t) ==
  /\ exec[t].pc = "createUser"
  /\ exec' = [exec EXCEPT ![t].pc = "backend", ![t].nextIndex = @ + 1]
  /\ UNCHANGED <<permVars, chunkVars, lastError, messages, events, nextMsgId,
                 produced, agentSessionId>>

\* await this.messagesService.create(userMessage), index: nextIndex++
ExecCreateUser(t) ==
  /\ exec[t].pc = "createUser"
  /\ messages' = Append(messages, UserMessage(t))
  /\ exec' = [exec EXCEPT ![t].pc = "backend", ![t].nextIndex = @ + 1]
  /\ UNCHANGED <<permVars, chunkVars, lastError, events, nextMsgId, produced,
                 agentSessionId>>

StreamEvent(type, id, chunk) ==
  [type |-> type, message_id |-> id, chunk |-> chunk]

\* From generateId() for the assistant message to the next await: with
\* callbacks and a non-empty text, onStreamStart and the first chunk (the
\* 50 ms delay follows unless it is the last), and onStreamEnd after the
\* last chunk; then messagesService.create is called.
StartStreaming(t, text) ==
  LET id == nextMsgId
      chunks == chunkTextForStreaming(text)
      local == [exec[t] EXCEPT !.msgId = id, !.content = text]
  IN  /\ nextMsgId' = nextMsgId + 1
      /\ IF ~(exec[t].callbacks /\ text # <<>>)
         THEN /\ events' = events
              /\ exec' = [exec EXCEPT ![t] =
                            [local EXCEPT !.pc = "create", !.sent = 0]]
         ELSE IF Len(chunks) = 0
         THEN /\ events' = events \o <<StreamEvent("start", id, <<>>),
                                       StreamEvent("end", id, <<>>)>>
              /\ exec' = [exec EXCEPT ![t] =
                            [local EXCEPT !.pc = "create", !.sent = 0]]
         ELSE IF Len(chunks) = 1
         THEN /\ events' = events \o <<StreamEvent("start", id, <<>>),
                                       StreamEvent("chunk", id, chunks[1]),
                                       StreamEvent("end", id, <<>>)>>
              /\ exec' = [exec EXCEPT ![t] =
                            [local EXCEPT !.pc = "create", !.sent = 1]]
         ELSE /\ events' = events \o <<StreamEvent("start", id, <<>>),
                                       StreamEvent("chunk", id, chunks[1])>>
              /\ exec' = [exec EXCEPT ![t] =
                            [local EXCEPT !.pc = "stream", !.sent = 1]]

\* the for-await loop receives the next assistant message of the backend;
\* the first one that carries an agentSessionId is captured and stored
BackendYields(t, text, agentId) ==
  /\ exec[t].streaming
  /\ exec[t].pc = "backend"
  /\ hook[t].pc = "idle"
  /\ Len(produced[t]) < MaxBlocks
  /\ produced' = [produced EXCEPT ![t] = Append(@, text)]
  /\ IF exec[t].captured = "none" /\ agentId # "none"
     THEN /\ exec' = [exec EXCEPT ![t].pc = "storeAgentSession",
                                  ![t].captured = agentId,
                                  ![t].content = text]
          /\ UNCHANGED <<events, nextMsgId>>
     ELSE StartStreaming(t, text)
  /\ UNCHANGED <<permVars, chunkVars, lastError, messages, agentSessionId>>

(***************************************************************************)
(* executePrompt, the non-streaming version: its first awaits, its         *)
(* sessionsRepo.update and its messagesService.create are those of         *)
(* executePromptWithStreaming; its loop body has no streaming part.        *)
(***************************************************************************)
\* the prompt route starts executePrompt, which runs to its first await
ExecutePromptPlain(t, s) ==
  /\ tasks[t].status = "none"
  /\ tasks' = [tasks EXCEPT ![t] = CreatedTask(s)]
  /\ exec' = [exec EXCEPT ![t] = [IdleExec EXCEPT !.pc = "findMessages",
                                                  !.streaming = FALSE]]
  /\ UNCHANGED <<serviceVars, chunkVars, lastError, msgVars>>

\* PlainContent without the trailing whitespace
PlainContentTrimmed(text) == TrimEnd(text)

\* content: assistantMsg.content, what executePrompt stores for a message
PlainContent(text) == text

\* the for-await loop of executePrompt receives the next assistant message:
\* it stores a first agentSessionId, or builds the message with
\* message_id: generateId() and goes to messagesService.create
PromptYields(t, text, agentId) ==
  /\ ~exec[t].streaming
  /\ exec[t].pc = "backend"
  /\ hook[t].pc = "idle"
  /\ Len(produced[t]) < MaxBlocks
  /\ produced' = [produced EXCEPT ![t] = Append(@, text)]
  /\ IF exec[t].captured = "none" /\ agentId # "none"
     THEN /\ exec' = [exec EXCEPT ![t].pc = "storeAgentSession",
                                  ![t].captured = agentId,
                                  ![t].content = PlainContent(text)]
          /\ UNCHANGED nextMsgId
     ELSE /\ exec' = [exec EXCEPT ![t].pc = "create",
                                  ![t].msgId = nextMsgId,
                                  ![t].content = PlainContent(text),
                                  ![t].sent = 0]
          /\ nextMsgId' = nextMsgId + 1
  /\ UNCHANGED <<permVars, chunkVars, lastError, messages, events,
                 agentSessionId>>

\* await this.sessionsRepo.update(sessionId, { agent_session_id: ... })
ExecStoreAgentSession(t) ==
  /\ exec[t].pc = "storeAgentSession"
  /\ agentSessionId' = [agentSessionId EXCEPT ![SessionOf(t)] = exec[t].captured]
  /\ StartStreaming(t, exec[t].content)
  /\ UNCHANGED <<permVars, chunkVars, lastError, messages, produced>>

\* ExecStreamNext that leaves out onStreamEnd
ExecStreamNextNoEnd(t) ==
  /\ exec[t].pc = "stream"
  /\ LET chunks == chunkTextForStreaming(exec[t].content)
         i == exec[t].sent + 1
         id == exec[t].msgId
     IN  /\ events' = Append(events, StreamEvent("chunk", id, chunks[i]))
         /\ exec' = [exec EXCEPT ![t].sent = i,
                                 ![t].pc = IF i < Len(chunks) THEN "stream"
                                           ELSE "create"]
  /\ UNCHANGED <<permVars, chunkVars, lastError, messages, nextMsgId, produced,
                 agentSessionId>>

\* the 50 ms delay is over: the next onStreamChunk, and onStreamEnd after
\* the last one
ExecStreamNext(t) ==
  /\ exec[t].pc = "stream"
  /\ LET chunks == chunkTextForStreaming(exec[t].content)
         i == exec[t].sent + 1
         id == exec[t].msgId
     IN  IF i < Len(chunks)
         THEN /\ events' = Append(events, StreamEvent("chunk", id, chunks[i]))
              /\ exec' = [exec EXCEPT ![t].sent = i]
         ELSE /\ events' = events \o <<StreamEvent("chunk", id, chunks[i]),
                                       StreamEvent("end", id, <<>>)>>
              /\ exec' = [exec EXCEPT ![t].sent = i, ![t].pc = "create"]
  /\ UNCHANGED <<permVars, chunkVars, lastError, messages, nextMsgId, produced,
                 agentSessionId>>

\* AssistantMessage with the text of the first chunk only
AssistantMessageFirstChunk(t) ==
  [message_id |-> exec[t].msgId, session_id |-> SessionOf(t),
   role |-> "assistant", index |-> exec[t].nextIndex,
   content |-> IF chunkTextForStreaming(exec[t].content) = <<>> THEN <<>>
               ELSE chunkTextForStreaming(exec[t].content)[1],
   task_id |-> t]

\* const message: Message = { message_id: assistantMessageId, ...,
\*                            content: assistantMsg.content, ... }
AssistantMessage(t) ==
  [message_id |-> exec[t].msgId, session_id |-> SessionOf(t),
   role |-> "assistant", index |-> exec[t].nextIndex,
   content |-> exec[t].content, task_id |-> t]

\* the message ids of the messages written so far
WrittenIds == {messages[i].message_id : i \in DOMAIN messages}

\* ExecCreateAssistant that does not wait for the chunks to be sent
ExecCreateAssistantEarly(t) ==
  /\ exec[t].pc \in {"stream", "create"}
  /\ exec[t].msgId \notin WrittenIds
  /\ messages' = Append(messages, AssistantMessage(t))
  /\ exec' = IF exec[t].pc = "create"
             THEN [exec EXCEPT ![t].pc = "backend", ![t].nextIndex = @ + 1]
             ELSE [exec EXCEPT ![t].nextIndex = @ + 1]
  /\ UNCHANGED <<permVars, chunkVars, lastError, events, nextMsgId, produced,
                 agentSessionId>>

\* await this.messagesService.create(message), index: nextIndex++; the loop
\* then asks the backend for its next message
ExecCreateAssistant(t) ==
  /\ exec[t].pc = "create"
  /\ messages' = Append(messages, AssistantMessage(t))
  /\ exec' = [exec EXCEPT ![t].pc = "backend", ![t].nextIndex = @ + 1]
  /\ UNCHANGED <<permVars, chunkVars, lastError, events, nextMsgId, produced,
                 agentSessionId>>

(***************************************************************************)
(* SpecExec: the message loop of one turn, with or without streaming       *)
(* callbacks, the backend calling the hook between its messages, and the   *)
(* user or the timer deciding each request.                                *)
(***************************************************************************)
NextExec ==
  \/ \E s \in SessionsFor("t1"), callbacks \in BOOLEAN :
        ExecutePrompt("t1", s, callbacks)
  \/ ExecFindMessages("t1")
  \/ ExecCreateUser("t1")
  \/ \E text \in Texts, agentId \in {"none", "sdk"} :
        BackendYields("t1", text, agentId)
  \/ ExecStoreAgentSession("t1")
  \/ ExecStreamNext("t1")
  \/ ExecCreateAssistant("t1")
  \/ RouteCompleted("t1")
  \/ RouteFailed("t1")
  \/ \E tool \in Tools : HookFindSession("t1", tool)
  \/ HookUpdateAwaiting("t1")
  \/ HookEmitAndWait("t1")
  \/ HookResume("t1")
  \/ \E r \in RequestIds : TimerFire(r)
  \/ \E d \in OncePromptDecisions : EndpointCreate(d)

SpecExec == InitSettings /\ [][NextExec]_vars

(***************************************************************************)
(* SpecStream: the message loop of one turn with streaming callbacks and   *)
(* without tool calls.  The 50 ms timer between two chunks always fires,   *)
(* so the chunk loop is not left waiting for ever.                         *)
(***************************************************************************)
NextStream ==
  \/ ExecutePrompt("t1", "s1", TRUE)
  \/ ExecFindMessages("t1")
  \/ ExecCreateUser("t1")
  \/ \E text \in Texts, agentId \in {"none", "sdk"} :
        BackendYields("t1", text, agentId)
  \/ ExecStoreAgentSession("t1")
  \/ ExecStreamNext("t1")
  \/ ExecCreateAssistant("t1")
  \/ RouteCompleted("t1")
  \/ RouteFailed("t1")

SpecStream ==
  InitSettings /\ [][NextStream]_vars /\ WF_vars(ExecStreamNext("t1"))

(***************************************************************************)
(* SpecModes: one turn without tool calls, run by executePrompt or by      *)
(* executePromptWithStreaming with or without streaming callbacks.         *)
(***************************************************************************)
NextModes ==
  \/ \E callbacks \in BOOLEAN : ExecutePrompt("t1", "s1", callbacks)
  \/ ExecutePromptPlain("t1", "s1")
  \/ ExecFindMessages("t1")
  \/ ExecCreateUser("t1")
  \/ \E text \in Texts, agentId \in {"none", "sdk"} :
        BackendYields("t1", text, agentId)
  \/ \E text \in Texts, agentId \in {"none", "sdk"} :
        PromptYields("t1", text, agentId)
  \/ ExecStoreAgentSession("t1")
  \/ ExecStreamNext("t1")
  \/ ExecCreateAssistant("t1")
  \/ RouteCompleted("t1")
  \/ RouteFailed("t1")

SpecModes == InitSettings /\ [][NextModes]_vars

\* assistantMsg.agentSessionId: absent, or the session id the backend uses
AgentSessionIds == {"none", "sdk1", "sdk2"}

(***************************************************************************)
(* SpecExecTwo: the message loops of two turns in session s1, without      *)
(* streaming callbacks and without tool calls; the turns overlap or follow *)
(* one another.                                                            *)
(***************************************************************************)
NextExecTwo ==
  \/ \E t \in Tasks : ExecutePrompt(t, "s1", FALSE)
  \/ \E t \in Tasks : ExecFindMessages(t)
  \/ \E t \in Tasks : ExecCreateUser(t)
  \/ \E t \in Tasks, agentId \in AgentSessionIds :
        BackendYields(t, <<"a">>, agentId)
  \/ \E t \in Tasks : ExecStoreAgentSession(t)
  \/ \E t \in Tasks : ExecCreateAssistant(t)
  \/ \E t \in Tasks : RouteCompleted(t)

SpecExecTwo == InitSettings /\ [][NextExecTwo]_vars

(***************************************************************************)
(* Spec: one turn, with every payload the endpoint accepts.                *)
(***************************************************************************)
Next ==
  \/ \E s \in SessionsFor("t1") : PromptRoute("t1", s)
  \/ RouteCompleted("t1")
  \/ RouteFailed("t1")
  \/ \E tool \in Tools : HookFindSession("t1", tool)
  \/ HookUpdateAwaiting("t1")
  \/ HookEmitAndWait("t1")
  \/ HookResume("t1")
  \/ HookPersistSession("t1")
  \/ HookProjectRead("t1")
  \/ HookProjectWrite("t1")
  \/ \E r \in RequestIds : TimerFire(r)
  \/ Abort("t1")
  \/ \E d \in Decisions : EndpointPatch(d)
  \/ EndpointResolve

Spec == Init /\ [][Next]_vars

(***************************************************************************)
(* SpecBoundary: one turn, and a client that answers the requests it was   *)
(* shown with "Allow once", with "Deny", or with a payload the endpoint's  *)
(* validation refuses.                                                     *)
(***************************************************************************)
NextBoundary ==
  \/ \E s \in SessionsFor("t1") : PromptRoute("t1", s)
  \/ RouteCompleted("t1")
  \/ \E tool \in Tools : HookFindSession("t1", tool)
  \/ HookUpdateAwaiting("t1")
  \/ HookEmitAndWait("t1")
  \/ HookResume("t1")
  \/ \E r \in RequestIds : TimerFire(r)
  \/ \E d \in OncePromptDecisions \cup MalformedPayloads : EndpointPatch(d)
  \/ EndpointResolve
  \/ \E d \in OncePromptDecisions \cup MalformedPayloads : EndpointReject(d)

SpecBoundary == InitSettings /\ [][NextBoundary]_vars

(***************************************************************************)
(* SpecTwo: two concurrent turns, in one session or in two, with the       *)
(* decisions the UI sends for the requests it was shown ("Allow once",     *)
(* "Deny", "Allow for Session"), each endpoint call running to its end     *)
(* before the next operation, and turns that end normally.                 *)
(***************************************************************************)
NextTwo ==
  \/ \E t \in Tasks : \E s \in SessionsFor(t) : PromptRoute(t, s)
  \/ \E t \in Tasks : RouteCompleted(t)
  \/ \E t \in Tasks, tool \in Tools : HookFindSession(t, tool)
  \/ \E t \in Tasks : HookUpdateAwaiting(t)
  \/ \E t \in Tasks : HookEmitAndWait(t)
  \/ \E t \in Tasks : HookResume(t)
  \/ \E t \in Tasks : HookPersistSession(t)
  \/ \E r \in RequestIds : TimerFire(r)
  \/ \E t \in Tasks : Abort(t)
  \/ \E d \in SessionPromptDecisions : EndpointCreate(d)

SpecTwo == InitSettings /\ [][NextTwo]_vars

(***************************************************************************)
(* SpecIso: two concurrent turns in two different sessions, every hook     *)
(* call for the same tool, with the decisions the UI sends for the         *)
(* requests it was shown, the timers and the abort of either turn.         *)
(***************************************************************************)
NextIso ==
  \/ PromptRoute("t1", "s1")
  \/ PromptRoute("t2", "s2")
  \/ \E t \in Tasks : RouteCompleted(t)
  \/ \E t \in Tasks : HookFindSession(t, "Bash")
  \/ \E t \in Tasks : HookUpdateAwaiting(t)
  \/ \E t \in Tasks : HookEmitAndWait(t)
  \/ \E t \in Tasks : HookResume(t)
  \/ \E t \in Tasks : HookPersistSession(t)
  \/ \E r \in RequestIds : TimerFire(r)
  \/ \E t \in Tasks : Abort(t)
  \/ \E d \in SessionPromptDecisions : EndpointCreate(d)

SpecIso == InitSettings /\ [][NextIso]_vars

(***************************************************************************)
(* C1: in every reachable state of every task, status is                   *)
(* awaiting_permission if and only if the task's permission_request is set *)
(* and unresolved, a permission_request being resolved once it carries     *)
(* approved_by / approved_at.  The states between the awaits of the hook   *)
(* and between the two calls of the endpoint are states of Spec.           *)
(***************************************************************************)
RequestUnresolved(t) ==
  tasks[t].permission_request.present /\ ~tasks[t].permission_request.approved_at

C1_AwaitingIffUnresolved ==
  \A t \in Tasks : tasks[t].status = "awaiting_permission" <=> RequestUnresolved(t)

\* the timer of a suspended request has fired and the hook has not resumed:
\* the task still awaits, its permission_request still has no approval
C1_Witness ==
  /\ hook["t1"].pc = "waiting"
  /\ resolution[hook["t1"].requestId].reason = "Timeout"
  /\ tasks["t1"].status = "awaiting_permission"
  /\ RequestUnresolved("t1")

(***************************************************************************)
(* C2: delivering a decision for a request id that is unknown or already   *)
(* resolved is a no-op: the tasks, both allow-lists and the pending        *)
(* registry are unchanged by the endpoint's patch and by its               *)
(* resolvePermission call.                                                 *)
(***************************************************************************)
C2_StaleDeliveryIsNoOp ==
  [][/\ \A d \in Decisions :
         (EndpointPatch(d) /\ d.requestId \notin pendingRequests)
            => UNCHANGED <<tasks, sessionAllowed, projectAllowed, pendingRequests>>
     /\ (EndpointResolve /\ inflight.requestId \notin pendingRequests)
            => UNCHANGED <<tasks, sessionAllowed, projectAllowed, pendingRequests>>
    ]_vars

(***************************************************************************)
(* C15: a delivered decision whose request id is not the request id of     *)
(* the task's current pending permission_request is rejected with no state *)
(* change: the endpoint's patch leaves the task records, both allow-lists, *)
(* the pending registry and the waiters' promises as they are.             *)
(***************************************************************************)
\* d names the request task d.taskId is waiting on
NamesCurrentRequest(d) ==
  /\ tasks[d.taskId].status = "awaiting_permission"
  /\ tasks[d.taskId].permission_request.present
  /\ tasks[d.taskId].permission_request.request_id = d.requestId

C15_StaleDecisionRejected ==
  [][\A d \in Decisions :
       (EndpointPatch(d) /\ ~NamesCurrentRequest(d))
          => UNCHANGED <<tasks, sessionAllowed, projectAllowed,
                         pendingRequests, resolution>>]_vars

(***************************************************************************)
(* C16: a decision payload without requestId, taskId, decidedBy or a       *)
(* boolean allow (or with an empty decidedBy) fails the endpoint's         *)
(* validation, and the endpoint call it is sent with changes neither the   *)
(* task records nor the allow-lists nor the pending registry, its timers   *)
(* and its promises: a task that awaits the request goes on awaiting it.   *)
(***************************************************************************)
C16_MalformedRejected ==
  [][\A d \in MalformedPayloads :
       /\ ~WellFormed(d)
       /\ (EndpointPatch(d) \/ EndpointReject(d))
             => UNCHANGED <<tasks, sessionAllowed, projectAllowed,
                            pendingRequests, timers, resolution>>]_vars

\* the endpoint has thrown a validation error while the task awaits a
\* request that is still pending
C16_Witness ==
  /\ lastError # "none"
  /\ hook["t1"].pc = "waiting"
  /\ tasks["t1"].status = "awaiting_permission"
  /\ hook["t1"].requestId \in pendingRequests
  /\ resolution[hook["t1"].requestId] = NoDecision

(***************************************************************************)
(* C14: no call of the hook ends in an exception: what the hook hands to   *)
(* its caller is always a permission decision.                             *)
(***************************************************************************)
C14_HookNeverThrows ==
  \A t \in Tasks : returned[t].permissionDecision # "threw"

(***************************************************************************)
(* C3: no message_id is written twice, and the assistant messages written  *)
(* for a turn are, in order, the messages its backend has yielded, each    *)
(* with its whole content: all of them whenever the loop is back at the    *)
(* backend or the turn is over, all but the one being streamed otherwise,  *)
(* whatever the hook did between two of them.                              *)
(***************************************************************************)
\* the contents of the assistant messages written for turn t, in order
RECURSIVE WrittenFrom(_, _)
WrittenFrom(t, i) ==
  IF i > Len(messages) THEN <<>>
  ELSE IF messages[i].task_id = t /\ messages[i].role = "assistant"
       THEN <<messages[i].content>> \o WrittenFrom(t, i + 1)
       ELSE WrittenFrom(t, i + 1)

InLoopBody(t) == exec[t].pc \in {"storeAgentSession", "stream", "create"}

C3_OneMessagePerBlock ==
  /\ \A i \in DOMAIN messages, j \in DOMAIN messages :
        i # j => messages[i].message_id # messages[j].message_id
  /\ \A t \in Tasks :
        LET written == WrittenFrom(t, 1)
            pending == IF InLoopBody(t) THEN 1 ELSE 0
        IN  /\ Len(written) + pending = Len(produced[t])
            /\ written = SubSeq(produced[t], 1, Len(written))

\* a turn suspended on a permission request between two messages, and both
\* were written, the second after its two chunks were streamed
C3_Witness ==
  /\ Len(WrittenFrom("t1", 1)) = MaxBlocks
  /\ Len(WrittenFrom("t1", 1)[MaxBlocks]) > 1
  /\ \E i \in DOMAIN events :
        events[i].type = "chunk" /\ events[i].message_id = exec["t1"].msgId
  /\ returned["t1"].permissionDecision # "none"
  /\ ~returned["t1"].immediate

(***************************************************************************)
(* C22: from the executor's call of the backend on, whatever the backend   *)
(* and the hook do and however the turn ends, the messages hold the user   *)
(* message of the turn, with the prompt as its content.                    *)
(***************************************************************************)
\* the turn is past messagesService.create(userMessage): the for-await loop
\* has called promptSessionStreaming
BackendContacted(t) ==
  exec[t].pc \in {"backend", "storeAgentSession", "stream", "create", "finished"}

UserMessageWritten(t) ==
  \E i \in DOMAIN messages :
     /\ messages[i].task_id = t
     /\ messages[i].role = "user"
     /\ messages[i].content = PromptText

C22_UserMessageFirst ==
  \A t \in Tasks :
     (BackendContacted(t) \/ produced[t] # <<>> \/ hook[t].pc # "idle")
        => UserMessageWritten(t)

\* a turn that failed at the backend before any assistant message
C22_Witness ==
  /\ exec["t1"].pc = "finished"
  /\ tasks["t1"].status = "failed"
  /\ produced["t1"] = <<>>
  /\ UserMessageWritten("t1")

(***************************************************************************)
(* C23: no chunk event is emitted for a message_id whose message has been  *)
(* written: every chunk event of a message precedes its durable write.     *)
(***************************************************************************)
\* the events a step has emitted
NewEvents == {events'[i] : i \in (Len(events) + 1)..Len(events')}

C23_WriteAfterLastChunk ==
  [][\A e \in NewEvents :
       e.type = "chunk"
          => /\ e.message_id \notin WrittenIds
             /\ e.message_id \notin {messages'[i].message_id : i \in DOMAIN messages'}
    ]_vars

\* a written assistant message that was streamed in two chunks
C23_Witness ==
  \E i \in DOMAIN messages :
     /\ messages[i].role = "assistant"
     /\ Cardinality({k \in DOMAIN events :
                       /\ events[k].type = "chunk"
                       /\ events[k].message_id = messages[i].message_id}) = 2

(***************************************************************************)
(* C24: streaming:end is emitted for a message_id only when the message    *)
(* with that id and the full text has been written.                        *)
(***************************************************************************)
C24_EndAfterWrite ==
  [][\A e \in NewEvents :
       e.type = "end" => e.message_id \in WrittenIds]_vars

(***************************************************************************)
(* C33: the events of a message_id are, in this order, one start, the      *)
(* chunks of its text in the chunker's order, and one end, with nothing    *)
(* after the end; and every start is eventually followed by the end.       *)
(***************************************************************************)
\* the ids generateId() hands out to the messages of a turn
MessageIds == 1..(MaxBlocks + 1)

EventsOf(id) == SelectSeq(events, LAMBDA e : e.message_id = id)

\* the text streamed under id: of the written message, or of the message
\* being processed
ContentOf(id) ==
  IF id \in WrittenIds
  THEN messages[CHOOSE i \in DOMAIN messages : messages[i].message_id = id].content
  ELSE exec[CHOOSE t \in Tasks : exec[t].msgId = id].content

Protocol(id, text) ==
  LET chunks == chunkTextForStreaming(text)
  IN  <<StreamEvent("start", id, <<>>)>>
        \o [i \in 1..Len(chunks) |-> StreamEvent("chunk", id, chunks[i])]
        \o <<StreamEvent("end", id, <<>>)>>

IsPrefix(a, b) == Len(a) <= Len(b) /\ a = SubSeq(b, 1, Len(a))

Started(id) == \E k \in DOMAIN events :
                 events[k].message_id = id /\ events[k].type = "start"

Ended(id) == \E k \in DOMAIN events :
               events[k].message_id = id /\ events[k].type \in {"end", "error"}

StreamingProtocol ==
  \A id \in MessageIds :
     EventsOf(id) # <<>> => IsPrefix(EventsOf(id), Protocol(id, ContentOf(id)))

C33_StreamingProtocol ==
  /\ []StreamingProtocol
  /\ \A id \in MessageIds : Started(id) ~> Ended(id)

\* a message streamed in two chunks, its start and its end emitted
C33_Witness ==
  \E id \in MessageIds :
     /\ Len(EventsOf(id)) = 4
     /\ Ended(id)

(***************************************************************************)
(* C35: whenever the message loop is between two messages of the backend   *)
(* or the turn is over, the messages written are a function of the prompt  *)
(* and of what the backend has yielded: the user message with index 0,     *)
(* then one assistant message per yielded message with the next index, the *)
(* yielded content and the task, the same for executePrompt and for        *)
(* executePromptWithStreaming with or without streaming callbacks.         *)
(***************************************************************************)
\* the messages of a first turn in session s whose backend has yielded out
Persisted(t, s, out) ==
  <<[message_id |-> 1, session_id |-> s, role |-> "user", index |-> 0,
     content |-> PromptText, task_id |-> t]>>
    \o [i \in 1..Len(out) |->
          [message_id |-> i + 1, session_id |-> s, role |-> "assistant",
           index |-> i, content |-> out[i], task_id |-> t]]

C35_StreamingIsAdvisory ==
  \A t \in Tasks :
     (exec[t].pc \in {"backend", "finished"} /\ tasks[t].status # "none")
        => messages = Persisted(t, SessionOf(t), produced[t])

\* a finished turn of executePromptWithStreaming that emitted chunk events
\* for a text whose chunks do not add up to it
C35_Witness ==
  /\ exec["t1"].pc = "finished"
  /\ exec["t1"].callbacks
  /\ Len(messages) = 3
  /\ \E i \in DOMAIN messages :
        /\ messages[i].role = "assistant"
        /\ Concat(chunkTextForStreaming(messages[i].content)) # messages[i].content
  /\ \E k \in DOMAIN events : events[k].type = "chunk"

(***************************************************************************)
(* C11: a turn with streaming callbacks that made one tool call, decided   *)
(* "Allow once", whose backend yielded one assistant message, and that has *)
(* completed: one permission:request was emitted, one assistant message is *)
(* written, and its text is the concatenation of the chunk events that     *)
(* carry its message_id.                                                   *)
(***************************************************************************)
\* the chunks of the onStreamChunk calls for message id, from event i on
RECURSIVE ChunkTextFrom(_, _)
ChunkTextFrom(id, i) ==
  IF i > Len(events) THEN <<>>
  ELSE IF events[i].type = "chunk" /\ events[i].message_id = id
       THEN events[i].chunk \o ChunkTextFrom(id, i + 1)
       ELSE ChunkTextFrom(id, i + 1)

ApprovedOnce(t) ==
  /\ exec[t].pc = "finished"
  /\ tasks[t].status = "completed"
  /\ exec[t].callbacks
  /\ Len(produced[t]) = 1
  /\ tasks[t].permission_request.present
  /\ returned[t] = HookOutput(tasks[t].permission_request.request_id, TRUE, "user")

C11_ApproveOnceScenario ==
  \A t \in Tasks :
     ApprovedOnce(t) =>
       /\ Cardinality({n \in notifs : n.taskId = t}) = 1
       /\ Len(WrittenFrom(t, 1)) = 1
       /\ \A i \in DOMAIN messages :
             (messages[i].task_id = t /\ messages[i].role = "assistant")
                => ChunkTextFrom(messages[i].message_id, 1) = messages[i].content

(***************************************************************************)
(* C12: once the hook has returned deny for a tool call, the executor's    *)
(* next step ends the turn: the task is failed, a streaming:error event    *)
(* has been emitted, and no further message is written.                    *)
(***************************************************************************)
ErrorEmitted(evs) == \E i \in DOMAIN evs : evs[i].type = "error"

C12_DenyEndsTurn ==
  [][\A t \in Tasks :
        (returned[t].permissionDecision = "deny" /\ exec'[t] # exec[t])
        => /\ exec'[t].pc = "finished"
           /\ tasks'[t].status = "failed"
           /\ ErrorEmitted(events')
           /\ messages' = messages
    ]_vars

(***************************************************************************)
(* C13: when the backend throws, a streaming:error event is emitted, the   *)
(* task becomes failed and no message is written for the failed block.     *)
(***************************************************************************)
C13_BackendErrorReported ==
  [][\A t \in Tasks :
        RouteFailed(t)
        => /\ ErrorEmitted(events')
           /\ tasks'[t].status = "failed"
           /\ messages' = messages
    ]_vars

(***************************************************************************)
(* C17: the index values of the messages of one session are strictly       *)
(* increasing in write order, also when two turns of the session overlap.  *)
(***************************************************************************)
C17_IndexStrictlyIncreasing ==
  \A i \in DOMAIN messages, j \in DOMAIN messages :
     (i < j /\ messages[i].session_id = messages[j].session_id)
        => messages[i].index < messages[j].index

(***************************************************************************)
(* C19: the agent session id of a session is written when the session has  *)
(* none, and a session that has one is not written again, by a later       *)
(* message or by a later turn.                                             *)
(***************************************************************************)
C19_TokenWrittenOnce ==
  [][/\ \A t \in Tasks :
         ExecStoreAgentSession(t) => agentSessionId[SessionOf(t)] = "none"
     /\ \A s \in Sessions :
         agentSessionId[s] # "none" => agentSessionId'[s] = agentSessionId[s]
    ]_vars

(***************************************************************************)
(* C21: a decision made up by the timer or by the abort listener carries   *)
(* remember = false, and the hook that resumes with it returns deny at     *)
(* once, with neither the session's nor the project's allow-list changed.  *)
(***************************************************************************)
Synthesized(decision) == decision.reason \in {"Timeout", "Cancelled"}

C21_SynthesizedNeverRemembered ==
  [][\A t \in Tasks :
       (/\ hook[t].pc = "waiting"
        /\ Synthesized(resolution[hook[t].requestId])
        /\ hook'[t] # hook[t])
          => /\ ~resolution[hook[t].requestId].remember
             /\ hook'[t] = IdleHook
             /\ returned'[t].permissionDecision = "deny"
             /\ UNCHANGED <<sessionAllowed, projectAllowed>>]_vars

\* a hook has returned the deny of a timeout
C21_Witness ==
  /\ hook["t1"].pc = "idle"
  /\ returned["t1"].reason = "Timeout"
  /\ returned["t1"].permissionDecision = "deny"

(***************************************************************************)
(* C25: a hook call for a tool that the session's list holds returns allow *)
(* without suspending and changes nothing else: no request id is drawn or  *)
(* registered, no permission:request is published, no timer or listener is *)
(* set, and the task record and both allow-lists stay as they are.         *)
(***************************************************************************)
C25_ShortCircuitFrame ==
  [][\A t \in Tasks, T \in Tools :
       (/\ tasks[t].status # "none"
        /\ SessionAllows(sessionAllowed[SessionOf(t)], T)
        /\ HookFindSession(t, T))
          => /\ returned'[t] = HookOutput(0, TRUE, "Allowed by session config")
             /\ hook'[t] = IdleHook
             /\ UNCHANGED <<tasks, sessionAllowed, projectAllowed,
                            pendingRequests, timers, listeners, resolution,
                            nextRequestId, notifs>>]_vars

\* a hook call has returned allow from the session's list, with the task
\* running
C25_Witness ==
  /\ returned["t1"].immediate
  /\ returned["t1"].permissionDecision = "allow"
  /\ hook["t1"].pc = "idle"
  /\ tasks["t1"].status = "running"
  /\ SessionAllows(sessionAllowed["s1"], "Bash")

(***************************************************************************)
(* C26: a hook call for a tool that the project's settings allow and the   *)
(* session's list does not hold returns allow without suspending and       *)
(* without publishing a permission:request.                                *)
(***************************************************************************)
\* permissions.allow.tools of the project's settings file holds the tool
ProjectAllows(settings, tool) == settings.exists /\ tool \in settings.tools

C26_ProjectShortCircuit ==
  [][\A t \in Tasks, T \in Tools :
       (/\ HookFindSession(t, T)
        /\ ProjectAllows(projectAllowed, T)
        /\ ~SessionAllows(sessionAllowed[SessionOf(t)], T))
          => /\ returned'[t].permissionDecision = "allow"
             /\ returned'[t].immediate
             /\ hook'[t] = IdleHook
             /\ nextRequestId' = nextRequestId
             /\ notifs' = notifs]_vars

(***************************************************************************)
(* C27: the hook that resumes with a decision sets the task to running if  *)
(* the decision allows and to failed otherwise, and leaves the task        *)
(* without a permission_request.                                           *)
(***************************************************************************)
C27_ResumeClearsRequest ==
  [][\A t \in Tasks :
       HookResume(t)
          => /\ tasks'[t].status =
                  IF resolution[hook[t].requestId].allow THEN "running"
                  ELSE "failed"
             /\ tasks'[t].permission_request = NoPermissionRequest]_vars

C6_AbortUnblocksWait ==
  \A t \in Tasks :
     (aborted[t] /\ hook[t].pc = "waiting")
        => resolution[hook[t].requestId] # NoDecision

(***************************************************************************)
(* C9: a task's status changes only along running -> awaiting_permission,  *)
(* awaiting_permission -> running, awaiting_permission -> failed,          *)
(* running -> completed and running -> failed, after the prompt route has  *)
(* created it running; completed and failed are never left.                *)
(***************************************************************************)
ListedTransitions ==
  {<<"none", "running">>, <<"created", "running">>,
   <<"running", "awaiting_permission">>, <<"awaiting_permission", "running">>,
   <<"awaiting_permission", "failed">>, <<"running", "completed">>,
   <<"running", "failed">>}

C9_ListedTransitionsOnly ==
  [][\A t \in Tasks :
        tasks'[t].status # tasks[t].status
           => <<tasks[t].status, tasks'[t].status>> \in ListedTransitions
    ]_vars

(***************************************************************************)
(* C10: a task leaves awaiting_permission only when its current request    *)
(* has been resolved (by a delivered decision, the timer or the abort      *)
(* listener), and it goes to running when that decision allows and to      *)
(* failed otherwise.                                                       *)
(***************************************************************************)
C10_LeavesAwaitingOnlyResolved ==
  [][\A t \in Tasks :
        (tasks[t].status = "awaiting_permission"
           /\ tasks'[t].status # "awaiting_permission")
        => LET r == tasks[t].permission_request.request_id
               decision == resolution[r]
           IN  /\ decision \notin {NoDecision, SettledPromise}
               /\ tasks'[t].status = IF decision.allow THEN "running" ELSE "failed"
    ]_vars

(***************************************************************************)
(* C7: when two tasks in different sessions are both awaiting permission,  *)
(* a decision delivered for one task's request, that request's timer, or   *)
(* the abort of that task's turn leaves the other task's record (status    *)
(* and permission_request), its hook and its pending waiter unchanged.     *)
(***************************************************************************)
BothAwaiting(a, b) ==
  /\ a # b
  /\ tasks[a].status = "awaiting_permission"
  /\ tasks[b].status = "awaiting_permission"
  /\ SessionOf(a) # SessionOf(b)
  /\ hook[a].pc = "waiting"
  /\ hook[b].pc = "waiting"

WaiterUnchanged(b) ==
  LET r == hook[b].requestId
  IN  /\ tasks'[b] = tasks[b]
      /\ hook'[b] = hook[b]
      /\ (r \in pendingRequests') = (r \in pendingRequests)
      /\ (r \in timers') = (r \in timers)
      /\ (r \in listeners') = (r \in listeners)
      /\ resolution'[r] = resolution[r]

NoDuplicates(list) ==
  \A i, j \in 1..Len(list) : list[i] = list[j] => i = j

C29_MergeIsUnion ==
  [][\A t \in Tasks :
       /\ HookPersistSession(t)
            => /\ Range(sessionAllowed'[SessionOf(t)]) =
                     Range(sessionAllowed[SessionOf(t)]) \cup {hook[t].tool}
               /\ NoDuplicates(sessionAllowed'[SessionOf(t)])
       /\ HookProjectWrite(t)
            => projectAllowed'.tools = hook[t].projSnapshot \cup {hook[t].tool}
    ]_vars

(***************************************************************************)
(* C30: a tool name is written to the session's list or to the project's   *)
(* settings only for a decision of a user that allows the tool and asks to *)
(* remember it.                                                            *)
(***************************************************************************)
C30_OnlyAllowIsRemembered ==
  [][\A t \in Tasks :
       (HookPersistSession(t) \/ HookProjectWrite(t))
          => /\ resolution[hook[t].requestId].allow
             /\ resolution[hook[t].requestId].remember
             /\ ~Synthesized(resolution[hook[t].requestId])]_vars

(***************************************************************************)
(* C31: no delivered decision is lost.  A request that has been published  *)
(* and has neither timed out nor been cancelled nor been decided is in the *)
(* pending registry; resolvePermission with a decision for it resolves its *)
(* wait with that decision; and the hook call that waited for it ends by   *)
(* returning that decision.                                                *)
(***************************************************************************)
\* request r is open: published, its timer armed, its promise unresolved
OpenRequest(r) ==
  /\ r \in Published
  /\ r \in timers
  /\ resolution[r] = NoDecision

C31_NoDecisionLost ==
  [][/\ \A r \in RequestIds : OpenRequest(r) => r \in pendingRequests
     /\ (EndpointResolve /\ inflight.requestId \in RequestIds
           /\ OpenRequest(inflight.requestId))
          => resolution'[inflight.requestId] = inflight
     /\ \A t \in Tasks :
          (/\ hook[t].pc \notin {"idle", "updateTask", "emitWait"}
           /\ hook'[t].pc = "idle"
           /\ resolution[hook[t].requestId].reason = "user")
             => returned'[t] =
                  HookOutput(hook[t].requestId,
                             resolution[hook[t].requestId].allow, "user")
    ]_vars

(***************************************************************************)
(* C32: the pending registry holds a request id exactly while a hook call  *)
(* is suspended on it with its promise unresolved; a timer that fires for  *)
(* a request that is already resolved, and an abort signal that fires      *)
(* while no hook call of the turn is suspended, change neither the         *)
(* registry nor any promise, task, return value or allow-list.             *)
(***************************************************************************)
\* a hook call is suspended on request r, whose promise is unresolved
SuspendedOn(r) ==
  \E t \in Tasks :
     /\ hook[t].pc = "waiting"
     /\ hook[t].requestId = r
     /\ resolution[r] = NoDecision

C32_RegistryWhileSuspended ==
  [][/\ \A r \in RequestIds : r \in pendingRequests <=> SuspendedOn(r)
     /\ \A r \in RequestIds :
          (TimerFire(r) /\ resolution[r] # NoDecision)
             => UNCHANGED <<pendingRequests, resolution, tasks, returned,
                            sessionAllowed, projectAllowed>>
     /\ \A t \in Tasks :
          (Abort(t) /\ hook[t].pc # "waiting")
             => UNCHANGED <<pendingRequests, resolution, tasks, returned,
                            sessionAllowed, projectAllowed>>
    ]_vars

\* the hook has returned the deny of a cancellation, and the timer of the
\* cancelled request, which the abort listener does not clear, has fired
C32_Witness ==
  /\ hook["t1"].pc = "idle"
  /\ returned["t1"].reason = "Cancelled"
  /\ timers = {}
  /\ pendingRequests = {}

(***************************************************************************)
(* C34: a decision remembered for a session lets hook calls short-circuit  *)
(* in that session only: a hook call for a tool for which no decision was  *)
(* remembered in its own session suspends, whatever other sessions have    *)
(* remembered, and the request it waits on is published for its session.   *)
(***************************************************************************)
C34_SessionListsIsolated ==
  [][/\ \A t \in Tasks, T \in Tools :
          (/\ tasks[t].status # "none"
           /\ T \notin remembered[SessionOf(t)]
           /\ HookFindSession(t, T))
             => /\ hook'[t].pc = "updateTask"
                /\ returned'[t] = returned[t]
     /\ \A t \in Tasks :
          hook'[t].pc = "waiting"
             => \E n \in notifs' : /\ n.requestId = hook'[t].requestId
                                   /\ n.sessionId = SessionOf(t)
                                   /\ n.toolName = hook'[t].tool
    ]_vars

\* session s1 has remembered the tool, and the hook of the turn in session
\* s2 is suspended on a published request for the same tool
C34_Witness ==
  /\ "Bash" \in remembered["s1"]
  /\ SessionAllows(sessionAllowed["s1"], "Bash")
  /\ returned["t1"].immediate
  /\ tasks["t2"].session_id = "s2"
  /\ hook["t2"].pc = "waiting"
  /\ hook["t2"].tool = "Bash"
  /\ hook["t2"].requestId \in Published

(***************************************************************************)
(* C8: after a remembered session-scope decision for tool T has been       *)
(* stored, the session's list holds T, and every later hook call for T in  *)
(* that session returns allow at once and emits no permission:request.     *)
(***************************************************************************)
AllowedAtOnce(t) ==
  /\ returned'[t] = HookOutput(0, TRUE, "Allowed by session config")
  /\ hook'[t] = IdleHook
  /\ notifs' = notifs
  /\ nextRequestId' = nextRequestId

C8_RememberedSessionAllows ==
  [][/\ \A s \in Sessions : \A T \in remembered'[s] :
          SessionAllows(sessionAllowed'[s], T)
     /\ \A t \in Tasks, T \in Tools :
          (tasks[t].status # "none" /\ T \in remembered[SessionOf(t)]
             /\ HookFindSession(t, T))
          => AllowedAtOnce(t)
    ]_vars

====
